---- MODULE Spec2Model ----
(***************************************************************************)
(* FaceitStatsGrabber (src/faceit_games.py): the script entry point, the   *)
(* three HTTP lookups, the paginating fetch_games loop and the export.     *)
(*                                                                         *)
(* Python values are modelled as follows.  A dict is a TLA+ record (a      *)
(* function on strings), the empty dict is <<>>, d.get(k, default) is      *)
(* Get(d, k, default).  A list held in a dict under a known key is a       *)
(* sequence.  A variable that can hold values of several Python types     *)
(* (player_result, the value fetch_games returns, player_stats) holds a    *)
(* dict as it is and any other value tagged: PyNone, PyStr(s), PyList(xs). *)
(***************************************************************************)
EXTENDS Integers, Sequences, FiniteSets, TLC

VARIABLES
    pc,             \* position of the script: step1, while, for, returned, exited, raised, done
    raised,         \* name of the uncaught exception that ended the run, "" if none
    player_result,  \* main: player_result (line 178)
    player_id,      \* fetch_games parameter player_id (main's PLAYER_ID)
    offset,         \* fetch_games: offset
    all_matches,    \* fetch_games: all_matches, the accumulator
    history,        \* fetch_games: history, the last page result
    matches,        \* fetch_games: matches, the items of the current page
    idx,            \* fetch_games: position of the for loop in matches (1-based)
    stats,          \* fetch_games: stats, the last match-detail result
    player_stats,   \* fetch_games: player_stats after the last scan
    fetched,        \* main: matches, the value fetch_games returned
    export_result,  \* main: export_result
    http,           \* the upstream's response to the last request
    requests,       \* log: every GET sent, in order
    calls,          \* log: every method call made by the script, in order
    pages,          \* log: every result get_match_history returned to fetch_games
    processed,      \* log: every match summary the for loop took, with its detail result
    writes          \* log: every spreadsheet write attempted

vars == <<pc, raised, player_result, player_id, offset, all_matches, history,
          matches, idx, stats, player_stats, fetched, export_result, http,
          requests, calls, pages, processed, writes>>

-----------------------------------------------------------------------------
(* Bounds of the model. *)

\* most match summaries the upstream holds for the player, over all pages
MaxItems == 2
\* most non-empty history pages the upstream serves before it runs out
MaxPages == 2

-----------------------------------------------------------------------------
(* Python values. *)

PyNone == [py |-> "None"]
PyStr(s) == [py |-> "str", v |-> s]
PyList(xs) == [py |-> "list", v |-> xs]

IsDict(x) == "py" \notin DOMAIN x
IsList(x) == ("py" \in DOMAIN x) /\ x.py = "list"

\* len(x) of a list or a dict
PyLen(x) == IF IsList(x) THEN Len(x.v) ELSE Cardinality(DOMAIN x)

\* dict.get(k, default)
Get(d, k, default) == IF k \in DOMAIN d THEN d[k] ELSE default

\* truth value of a dict-or-None: None and {} are false
Truthy(x) == IsDict(x) /\ DOMAIN x # {}

\* `sub in s` for two str
StrContains(s, sub) ==
    \E i \in 1..(Len(s) - Len(sub) + 1) : SubSeq(s, i, i + Len(sub) - 1) = sub

\* `"error" in x` raises TypeError for x None
InRaisesTypeError(x) == x = PyNone

\* `"error" in x` for x a dict (key test), a str (substring test) or a list of
\* dicts (element test: a dict never equals the str)
InError(x) ==
    IF IsDict(x) THEN "error" \in DOMAIN x
    ELSE IF x.py = "str" THEN StrContains(x.v, "error")
    ELSE FALSE

-----------------------------------------------------------------------------
(* Program constants. *)

limit == 100
NICKNAME == "Kevzip"
GAME_ID == "cs2"
Fields == {"Kills", "Deaths", "Assists", "K/D Ratio", "Headshots %", "MVPs", "Result"}

-----------------------------------------------------------------------------
(* datetime.fromtimestamp(ts, tz=utc).strftime("%Y-%m-%d %H:%M:%S") *)

Pad2(n) == IF n < 10 THEN "0" \o ToString(n) ELSE ToString(n)

\* strftime("%Y") of the C library: the year as it is, not padded to four
\* digits (year 999 gives "999")
StrftimeYear(y) == ToString(y)

\* datetime.fromtimestamp on the day `days` after 1970-01-01 (before it when
\* negative), a day the platform's gmtime converts: the proleptic Gregorian
\* date, or the ValueError raised when the year is outside 1..9999 (\div
\* rounds down, as the conversion does)
CivilFromDays(days) ==
    LET z == days + 719468
        era == z \div 146097
        doe == z - era * 146097
        yoe == (doe - (doe \div 1460) + (doe \div 36524) - (doe \div 146096)) \div 365
        doy == doe - (365 * yoe + (yoe \div 4) - (yoe \div 100))
        mp == (5 * doy + 2) \div 153
        d == doy - ((153 * mp + 2) \div 5) + 1
        m == IF mp < 10 THEN mp + 3 ELSE mp - 9
        y == yoe + era * 400 + (IF m <= 2 THEN 1 ELSE 0)
    IN  IF y < 1 \/ y > 9999
        THEN [raises |-> "ValueError", year |-> y]
        ELSE [year |-> y, month |-> m, day |-> d]

\* whether line 128 raises for the start timestamp ts: it does for every ts
\* outside the years 1..9999.  The exception is not caught and ends fetch_games.
FromTimestampRaises(ts) == "raises" \in DOMAIN CivilFromDays(ts \div 86400)

\* the exception line 128 raises for such a ts: OverflowError when ts does not
\* fit the platform's 64-bit time_t, OSError (EOVERFLOW) when gmtime cannot
\* hold its year in an int, ValueError otherwise
FromTimestampError(ts) ==
    IF ts < -(2^63) \/ ts > 2^63 - 1 THEN "OverflowError"
    ELSE IF \/ ts < -(67768040 * 1000000000 + 609740800)
            \/ ts > 67768036 * 1000000000 + 191676799
    THEN "OSError"
    ELSE "ValueError"

\* the Date field, for a ts that fromtimestamp accepts
FormatDate(ts) ==
    LET c == CivilFromDays(ts \div 86400)
        s == ts % 86400
    IN  StrftimeYear(c.year) \o "-" \o Pad2(c.month) \o "-" \o Pad2(c.day) \o " " \o
        Pad2(s \div 3600) \o ":" \o Pad2((s % 3600) \div 60) \o ":" \o Pad2(s % 60)

-----------------------------------------------------------------------------
(* The upstream: what one GET can come back with.  A transport failure     *)
(* (requests.RequestException) is [exc |-> name]; any other response has a *)
(* status_code, and a text (non-200) or a parsed JSON body (200).          *)

TransportFailure == [exc |-> "ConnectionError"]
Failures == {TransportFailure, [status_code |-> 404, text |-> "Not Found"]}
Ok(body) == [status_code |-> 200, json |-> body]

IsTransportFailure(resp) == "exc" \in DOMAIN resp

\* the ids the players endpoint can answer with; the second contains "error"
PlayerIds == {"p1", "terror-1"}
PlayerResponses ==
    Failures \cup {Ok([player_id |-> p, nickname |-> NICKNAME]) : p \in PlayerIds}
             \cup {Ok([nickname |-> NICKNAME])}

\* match summaries of a history page: two well-formed, one without match_id,
\* one without started_at, one whose started_at is 0
Summaries ==
    { [match_id |-> "m1", started_at |-> 1748736000],
      [match_id |-> "m2", started_at |-> 1767225599],
      [started_at |-> 1748736000],
      [match_id |-> "m3"],
      [match_id |-> "m4", started_at |-> 0] }

PagesOf(n) == UNION {[1..k -> Summaries] : k \in 1..n}

\* pages the upstream can answer with when `left` summaries are still unserved
HistoryResponses(left) ==
    Failures \cup {Ok(<<>>), Ok([items |-> <<>>])}
             \cup {Ok([items |-> p]) : p \in PagesOf(left)}

StatsFull ==
    ("Kills" :> "20") @@ ("Deaths" :> "10") @@ ("Assists" :> "5") @@
    ("K/D Ratio" :> "2.00") @@ ("Headshots %" :> "50") @@ ("MVPs" :> "3") @@
    ("Result" :> "1")
StatsPartial == ("Kills" :> "7") @@ ("Result" :> "0")
StatsOther ==
    ("Kills" :> "11") @@ ("Deaths" :> "12") @@ ("Assists" :> "1") @@
    ("K/D Ratio" :> "0.92") @@ ("Headshots %" :> "33") @@ ("MVPs" :> "0") @@
    ("Result" :> "0")

POther == [player_id |-> "p2", nickname |-> "other", player_stats |-> StatsOther]
PFull == [player_id |-> "p1", nickname |-> NICKNAME, player_stats |-> StatsFull]
PPartial == [player_id |-> "p1", nickname |-> NICKNAME, player_stats |-> StatsPartial]
PNoStats == [player_id |-> "p1", nickname |-> NICKNAME]
PEmptyStats == [player_id |-> "p1", nickname |-> NICKNAME, player_stats |-> <<>>]

RoundStatsA == ("Map" :> "de_dust2") @@ ("Score" :> "13 / 7")
RoundStatsB == ("Map" :> "de_mirage") @@ ("Score" :> "9 / 13")

\* bodies of the match-stats endpoint
Details ==
    { <<>>,
      [rounds |-> <<>>],
      [rounds |-> << [round_stats |-> RoundStatsA] >>],
      [rounds |-> << [round_stats |-> RoundStatsA,
                      teams |-> << [team_id |-> "t1"],
                                   [team_id |-> "t2", players |-> <<POther>>] >>] >>],
      [rounds |-> << [round_stats |-> RoundStatsA,
                      teams |-> << [players |-> <<POther>>],
                                   [players |-> <<POther, PFull, PPartial>>] >>] >>],
      [rounds |-> << [teams |-> << [players |-> <<PPartial>>],
                                   [players |-> <<PFull>>] >>] >>],
      [rounds |-> << [round_stats |-> RoundStatsB,
                      teams |-> << [players |-> <<PNoStats, PFull>>] >>] >>],
      [rounds |-> << [round_stats |-> RoundStatsB,
                      teams |-> << [players |-> <<PEmptyStats>>],
                                   [players |-> <<PPartial>>] >>] >>],
      [rounds |-> << [round_stats |-> RoundStatsA,
                      teams |-> << [players |-> <<POther>>] >>],
                     [round_stats |-> RoundStatsB,
                      teams |-> << [players |-> <<PFull>>] >>] >>],
      [rounds |-> << [round_stats |-> RoundStatsB,
                      teams |-> << [players |-> <<POther, PNoStats>>] >>] >>] }

\* a 200 body of the match-stats endpoint with an "error" key and no "message"
ErrorBody == [error |-> "boom"]

StatsResponses == Failures \cup {Ok(d) : d \in Details \cup {ErrorBody}}

-----------------------------------------------------------------------------
(* The three lookups, as functions of the upstream's response. *)

find_player_id(resp) ==
    IF IsTransportFailure(resp)
    THEN [error |-> "Player search error", message |-> resp.exc]
    ELSE IF resp.status_code = 200
    THEN (IF "player_id" \in DOMAIN resp.json
          THEN PyStr(resp.json.player_id) ELSE PyNone)
    ELSE [error |-> "Player search failed with status " \o ToString(resp.status_code),
          message |-> resp.text]

get_match_history(resp) ==
    IF IsTransportFailure(resp)
    THEN [error |-> "Request error", message |-> resp.exc]
    ELSE IF resp.status_code = 200
    THEN resp.json
    ELSE [error |-> "Match history request failed with status " \o ToString(resp.status_code),
          message |-> resp.text]

\* a lookup that takes any response with a status for a success
StatsWithoutStatusTest(resp) ==
    IF IsTransportFailure(resp)
    THEN [error |-> "Request error", message |-> resp.exc]
    ELSE Get(resp, "json", <<>>)

get_match_stats(resp) ==
    IF IsTransportFailure(resp)
    THEN [error |-> "Request error", message |-> resp.exc]
    ELSE IF resp.status_code = 200
    THEN resp.json
    ELSE [error |-> "Match stats request failed with status " \o ToString(resp.status_code),
          message |-> resp.text]

\* the log of GETs after one more is sent: each lookup sends one, never retries
SendGet(log, req) == Append(log, req)

-----------------------------------------------------------------------------
(* fetch_games: the pieces of one pass of the for loop. *)

\* `not match_id or not match_date` (None, "" and 0 are false)
SkipSummary(match) ==
    \/ "match_id" \notin DOMAIN match
    \/ match.match_id = ""
    \/ "started_at" \notin DOMAIN match
    \/ match.started_at = 0

\* stats.get("rounds", [{}])[0] raises IndexError on an empty list
RoundsIndexError(st) == ("rounds" \in DOMAIN st) /\ Len(st.rounds) = 0

FirstRound(st) == Get(st, "rounds", << <<>> >>)[1]

\* a scan that tests only that the entry has a player id, not which
RECURSIVE ScanPlayersAnyId(_, _, _, _)
ScanPlayersAnyId(players, j, cur, pid) ==
    IF j > Len(players) THEN cur
    ELSE IF "player_id" \in DOMAIN players[j]
    THEN Get(players[j], "player_stats", <<>>)
    ELSE ScanPlayersAnyId(players, j + 1, cur, pid)

\* the inner loop over one team's players: player_stats after it, given its
\* value `cur` before it (the first entry with the player id sets it and breaks)
RECURSIVE ScanPlayers(_, _, _, _)
ScanPlayers(players, j, cur, pid) ==
    IF j > Len(players) THEN cur
    ELSE IF ("player_id" \in DOMAIN players[j]) /\ players[j].player_id = pid
    THEN Get(players[j], "player_stats", <<>>)
    ELSE ScanPlayers(players, j + 1, cur, pid)

\* the outer loop over the teams: it breaks once player_stats is true
RECURSIVE ScanTeams(_, _, _, _)
ScanTeams(teams, t, cur, pid) ==
    IF t > Len(teams) THEN cur
    ELSE LET new == ScanPlayers(Get(teams[t], "players", <<>>), 1, cur, pid)
         IN  IF Truthy(new) THEN new ELSE ScanTeams(teams, t + 1, new, pid)

\* lines 111-118: player_stats = None, then the two loops
ExtractPlayerStats(st, pid) ==
    ScanTeams(Get(FirstRound(st), "teams", <<>>), 1, PyNone, pid)

\* a record whose map name is read from the player's statistics
BuildRecordMapFromPlayer(nickname, match, st, ps) ==
    [k \in {"Nickname", "Match ID", "Date", "Map", "Score"} \cup Fields |->
        CASE k = "Nickname" -> nickname
          [] k = "Match ID" -> match.match_id
          [] k = "Date" -> FormatDate(match.started_at)
          [] k = "Map" -> Get(ps, "Map", "N/A")
          [] k = "Score" -> Get(Get(FirstRound(st), "round_stats", <<>>), "Score", "N/A")
          [] k = "Result" -> Get(ps, "Result", "N/A")
          [] OTHER -> Get(ps, k, "0")]

\* lines 125-138: the flat record of one match
BuildRecord(nickname, match, st, ps) ==
    LET rs == Get(FirstRound(st), "round_stats", <<>>)
    IN  [k \in {"Nickname", "Match ID", "Date", "Map", "Score"} \cup Fields |->
            CASE k = "Nickname" -> nickname
              [] k = "Match ID" -> match.match_id
              [] k = "Date" -> FormatDate(match.started_at)
              [] k = "Map" -> Get(rs, "Map", "N/A")
              [] k = "Score" -> Get(rs, "Score", "N/A")
              [] k = "Result" -> Get(ps, "Result", "N/A")
              [] OTHER -> Get(ps, k, "0")]

\* an offset advanced by the size of the page instead of by limit
NextOffsetByPageSize(off) == off + Len(matches)

\* line 141
NextOffset(off) == off + limit

\* line 93: `not matches`
PageIsEmpty(items) == Len(items) = 0

\* main, line 179: `if "error" in player_result: ... exit()`
StopAfterPlayerSearch(result) == InError(result)

\* a main that exports whatever fetch_games returned
NeverStopAfterFetch(result) == FALSE

\* main, line 188: `if "error" in matches: ... exit()`
StopAfterFetch(result) == InError(result)

\* a fetch_games that returns the records accumulated so far instead
ReturnPartialOnHistoryError(hist, acc) == acc

\* line 90: what fetch_games returns when a history page is an error result
ReturnOnHistoryError(hist, acc) == hist

\* lines 106-108: a failed detail fetch leaves the accumulator as it is
AfterStatsError(acc) == acc

-----------------------------------------------------------------------------
(* export_to_excel(matches, nickname); write_raises: whether to_excel raises *)

Filename(nickname) == nickname \o "'s faceit_games.xlsx"

\* an export without the emptiness test
ExportWithoutEmptyTest(ms, nickname, write_raises) ==
    IF write_raises THEN [error |-> "Export error", message |-> "PermissionError"]
    ELSE [success |-> "Exported " \o ToString(PyLen(ms)) \o " matches to "
                      \o nickname \o "'s faceit_games.xlsx"]

\* ms is the Python value passed as `matches`
export_to_excel(ms, nickname, write_raises) ==
    IF PyLen(ms) = 0 THEN [error |-> "No matches to export"]
    ELSE IF write_raises THEN [error |-> "Export error", message |-> "PermissionError"]
    ELSE [success |-> "Exported " \o ToString(PyLen(ms)) \o " matches to " \o Filename(nickname)]

\* the writes export_to_excel attempts, appended to the log
ExportWrites(log, ms, nickname, write_raises) ==
    IF PyLen(ms) = 0 THEN log
    ELSE Append(log, [filename |-> Filename(nickname), rows |-> ms, raised |-> write_raises])

-----------------------------------------------------------------------------
(* The run. *)

Init ==
    /\ pc = "step1"
    /\ raised = ""
    /\ player_result = PyNone
    /\ player_id = PyNone
    /\ offset = 0
    /\ all_matches = <<>>
    /\ history = PyNone
    /\ matches = <<>>
    /\ idx = 0
    /\ stats = PyNone
    /\ player_stats = PyNone
    /\ fetched = PyNone
    /\ export_result = PyNone
    /\ http = PyNone
    /\ requests = <<>>
    /\ calls = <<>>
    /\ pages = <<>>
    /\ processed = <<>>
    /\ writes = <<>>

\* main, lines 178-187: step 1, and on success the call of fetch_games up to
\* its loop (lines 81-83)
FindPlayer ==
    /\ pc = "step1"
    /\ \E resp \in PlayerResponses :
         LET res == find_player_id(resp) IN
         /\ http' = resp
         /\ requests' = SendGet(requests, [fn |-> "find_player_id", nickname |-> NICKNAME])
         /\ player_result' = res
         /\ IF InRaisesTypeError(res)
            THEN \* line 179: `"error" in None` raises TypeError
                 /\ pc' = "raised"
                 /\ raised' = "TypeError"
                 /\ calls' = Append(calls, [fn |-> "find_player_id"])
                 /\ UNCHANGED player_id
            ELSE IF StopAfterPlayerSearch(res)
            THEN \* line 179-181: exit()
                 /\ pc' = "exited"
                 /\ calls' = Append(calls, [fn |-> "find_player_id"])
                 /\ UNCHANGED <<raised, player_id>>
            ELSE /\ pc' = "while"
                 /\ player_id' = res.v
                 /\ calls' = calls \o <<[fn |-> "find_player_id"],
                                        [fn |-> "fetch_games", player_id |-> res.v]>>
                 /\ UNCHANGED raised
    /\ offset' = 0
    /\ all_matches' = <<>>
    /\ UNCHANGED <<history, matches, idx, stats, player_stats, fetched,
                   export_result, pages, processed, writes>>

\* lines 85-96: the head of one pass of the while loop
GetHistoryPage ==
    /\ pc = "while"
    /\ \E resp \in HistoryResponses(IF Len(pages) < MaxPages
                                    THEN MaxItems - Len(processed) ELSE 0) :
         LET hist == get_match_history(resp)
             items == Get(hist, "items", <<>>)
         IN
         /\ http' = resp
         /\ requests' = SendGet(requests, [fn |-> "get_match_history", offset |-> offset,
                                           limit |-> limit])
         /\ history' = hist
         /\ pages' = Append(pages, hist)
         /\ calls' = Append(calls, [fn |-> "get_match_history"])
         /\ IF InError(hist)
            THEN /\ fetched' = ReturnOnHistoryError(hist, PyList(all_matches))
                 /\ pc' = "returned"
                 /\ UNCHANGED <<matches, idx>>
            ELSE IF PageIsEmpty(items)
            THEN /\ fetched' = PyList(all_matches)
                 /\ pc' = "returned"
                 /\ matches' = items
                 /\ UNCHANGED idx
            ELSE /\ matches' = items
                 /\ idx' = 1
                 /\ pc' = "for"
                 /\ UNCHANGED fetched
    /\ UNCHANGED <<raised, player_result, player_id, offset, all_matches, stats,
                   player_stats, export_result, processed, writes>>

\* lines 139-143 seen from the for loop: the next item, or past the last one
\* `offset += limit`, the sleep, and back to the head of the while loop
Advance ==
    /\ idx' = idx + 1
    /\ IF idx = Len(matches)
       THEN pc' = "while" /\ offset' = NextOffset(offset)
       ELSE pc' = "for" /\ UNCHANGED offset

\* lines 98-139: one pass of the for loop
ProcessMatch ==
    /\ pc = "for"
    /\ idx <= Len(matches)
    /\ LET match == matches[idx] IN
       IF SkipSummary(match)
       THEN /\ processed' = Append(processed, [match |-> match, stats |-> PyNone])
            /\ Advance
            /\ UNCHANGED <<raised, all_matches, stats, player_stats, http, requests, calls>>
       ELSE \E resp \in StatsResponses :
            LET st == get_match_stats(resp) IN
            /\ http' = resp
            /\ requests' = SendGet(requests, [fn |-> "get_match_stats",
                                              match_id |-> match.match_id])
            /\ calls' = Append(calls, [fn |-> "get_match_stats"])
            /\ stats' = st
            /\ processed' = Append(processed, [match |-> match, stats |-> st])
            /\ IF InError(st) /\ "message" \notin DOMAIN st
               THEN \* line 107: stats['message'] raises KeyError
                    /\ pc' = "raised"
                    /\ raised' = "KeyError"
                    /\ UNCHANGED <<all_matches, idx, offset, player_stats>>
               ELSE IF InError(st)
               THEN /\ all_matches' = AfterStatsError(all_matches)
                    /\ Advance
                    /\ UNCHANGED <<raised, player_stats>>
               ELSE IF RoundsIndexError(st)
               THEN /\ player_stats' = PyNone
                    /\ pc' = "raised"
                    /\ raised' = "IndexError"
                    /\ UNCHANGED <<all_matches, idx, offset>>
               ELSE LET ps == ExtractPlayerStats(st, player_id) IN
                    IF Truthy(ps) /\ FromTimestampRaises(match.started_at)
                    THEN \* line 128 raises while the record is built
                         /\ player_stats' = ps
                         /\ pc' = "raised"
                         /\ raised' = FromTimestampError(match.started_at)
                         /\ UNCHANGED <<all_matches, idx, offset>>
                    ELSE /\ player_stats' = ps
                         /\ all_matches' = IF Truthy(ps)
                                           THEN Append(all_matches,
                                                       BuildRecord(NICKNAME, match, st, ps))
                                           ELSE all_matches
                         /\ Advance
                         /\ UNCHANGED raised
    /\ UNCHANGED <<player_result, player_id, history, matches, fetched,
                   export_result, pages, writes>>

\* main, lines 188-190: fetch_games returned an error result
FetchErrorExit ==
    /\ pc = "returned"
    /\ StopAfterFetch(fetched)
    /\ pc' = "exited"
    /\ UNCHANGED <<raised, player_result, player_id, offset, all_matches, history,
                   matches, idx, stats, player_stats, fetched, export_result, http,
                   requests, calls, pages, processed, writes>>

\* main, lines 193-194: step 3
Export ==
    /\ pc = "returned"
    /\ ~StopAfterFetch(fetched)
    /\ \E write_raises \in (IF PyLen(fetched) = 0 THEN {FALSE} ELSE BOOLEAN) :
         /\ export_result' = export_to_excel(fetched, NICKNAME, write_raises)
         /\ writes' = ExportWrites(writes, fetched, NICKNAME, write_raises)
    /\ calls' = Append(calls, [fn |-> "export_to_excel", matches |-> fetched])
    /\ pc' = "done"
    /\ UNCHANGED <<raised, player_result, player_id, offset, all_matches, history,
                   matches, idx, stats, player_stats, fetched, http, requests,
                   pages, processed>>

Next == FindPlayer \/ GetHistoryPage \/ ProcessMatch \/ FetchErrorExit \/ Export

Spec == Init /\ [][Next]_vars

-----------------------------------------------------------------------------
(* Vocabulary of the properties, stated on the logs and on the upstream's  *)
(* data, not through the operators that model the code.                    *)

Last(s) == s[Len(s)]

HistoryRequests == SelectSeq(requests, LAMBDA r : r.fn = "get_match_history")
MainCalls == SelectSeq(calls, LAMBDA c : c.fn \in {"find_player_id", "fetch_games",
                                                   "export_to_excel"})
LookupCalls == SelectSeq(calls, LAMBDA c : c.fn \in {"find_player_id", "get_match_history",
                                                     "get_match_stats"})

IsErrorResult(x) == ("py" \notin DOMAIN x) /\ ("error" \in DOMAIN x)
PageItems(h) == IF "items" \in DOMAIN h THEN h.items ELSE <<>>
IsEmptyPage(h) == ~IsErrorResult(h) /\ PageItems(h) = <<>>
IsNonEmptyPage(h) == ~IsErrorResult(h) /\ PageItems(h) # <<>>

\* the summaries of the first n pages, in the order the upstream returned them
RECURSIVE ItemsOfPages(_, _)
ItemsOfPages(ps, n) == IF n = 0 THEN <<>> ELSE ItemsOfPages(ps, n - 1) \o PageItems(ps[n])

HasIdAndDate(m) == ("match_id" \in DOMAIN m) /\ ("started_at" \in DOMAIN m)
DetailFetched(p) == ("py" \notin DOMAIN p.stats) /\ ("error" \notin DOMAIN p.stats)

TeamsOf(st) ==
    IF ("rounds" \in DOMAIN st) /\ st.rounds # <<>> /\ ("teams" \in DOMAIN st.rounds[1])
    THEN st.rounds[1].teams ELSE <<>>
PlayersOf(team) == IF "players" \in DOMAIN team THEN team.players ELSE <<>>
HasId(entry, pid) == ("player_id" \in DOMAIN entry) /\ entry.player_id = pid
EntryStats(entry) == IF "player_stats" \in DOMAIN entry THEN entry.player_stats ELSE <<>>
RoundStatsOf(st) ==
    IF ("rounds" \in DOMAIN st) /\ st.rounds # <<>> /\ ("round_stats" \in DOMAIN st.rounds[1])
    THEN st.rounds[1].round_stats ELSE <<>>
Default(field) == IF field = "Result" THEN "N/A" ELSE "0"
OrElse(d, k, default) == IF k \in DOMAIN d THEN d[k] ELSE default

\* positions <<team, player>> of the entries of round 0 that carry the id
Positions(st, pid) ==
    UNION { { <<t, k>> : k \in {n \in 1..Len(PlayersOf(TeamsOf(st)[t])) :
                                    HasId(PlayersOf(TeamsOf(st)[t])[n], pid)} } :
            t \in 1..Len(TeamsOf(st)) }
Before(a, b) == a[1] < b[1] \/ (a[1] = b[1] /\ a[2] < b[2])
FirstPosition(S) == CHOOSE a \in S : \A b \in S : a = b \/ Before(a, b)
EntryAt(st, a) == PlayersOf(TeamsOf(st)[a[1]])[a[2]]

\* positions of the entries that are the first with the id in their own team
\* and have a non-empty statistics object
TeamHits(st, pid) ==
    {a \in Positions(st, pid) :
        /\ \A b \in Positions(st, pid) : b[1] = a[1] => b[2] >= a[2]
        /\ EntryStats(EntryAt(st, a)) # <<>>}

\* the strftime of the two start timestamps of the upstream's summaries
ExpectedDate(ts) ==
    CASE ts = 1748736000 -> "2025-06-01 00:00:00"
      [] ts = 1767225599 -> "2025-12-31 23:59:59"

RecordFrom(m, st, ps) ==
    ("Nickname" :> NICKNAME) @@ ("Match ID" :> m.match_id) @@
    ("Date" :> ExpectedDate(m.started_at)) @@
    ("Map" :> OrElse(RoundStatsOf(st), "Map", "N/A")) @@
    ("Score" :> OrElse(RoundStatsOf(st), "Score", "N/A")) @@
    [f \in Fields |-> OrElse(ps, f, Default(f))]

-----------------------------------------------------------------------------
\* C1: the history requests are issued at offsets 0, limit, 2*limit, ... in
\* that order; every page before the last one answered was a non-error,
\* non-empty page; once a non-error page with an empty item list is answered
\* (after N non-empty ones) the N+1 requests made are all there ever are,
\* fetch_games has returned, and what it returned is the accumulated list;
\* and fetch_games never returns after a non-empty page.
C1_PaginationTerminates ==
    /\ Len(HistoryRequests) = Len(pages)
    /\ \A i \in 1..Len(pages) : HistoryRequests[i].offset = (i - 1) * limit
    /\ \A i \in 1..(Len(pages) - 1) : IsNonEmptyPage(pages[i])
    /\ (pages # <<>> /\ IsEmptyPage(Last(pages)))
          => /\ pc \in {"returned", "done"}
             /\ fetched = PyList(all_matches)
             /\ Last(requests).fn = "get_match_history"
    /\ (pc \in {"returned", "done", "exited"} /\ pages # <<>>)
          => ~IsNonEmptyPage(Last(pages))

\* two non-empty pages, then the empty page: three requests, the run is over
C1_Witness ==
    /\ pc = "done"
    /\ Len(pages) = 3
    /\ IsEmptyPage(pages[3])
    /\ Len(HistoryRequests) = 3
    /\ HistoryRequests[3].offset = 200

\* C2: a history page that is an error result is the last request of the run:
\* fetch_games has returned that very error result (not the records it had
\* accumulated), no history or match-detail request follows it, and nothing
\* is exported.
C2_HistoryErrorAborts ==
    \A i \in 1..Len(pages) :
        IsErrorResult(pages[i]) =>
            /\ i = Len(pages)
            /\ pc \in {"returned", "exited"}
            /\ fetched = pages[i]
            /\ Last(requests).fn = "get_match_history"
            /\ Last(requests).offset = (i - 1) * limit
            /\ writes = <<>>
            /\ export_result = PyNone

\* a second page fails after the first page produced a record
C2_Witness ==
    /\ pc = "exited"
    /\ Len(pages) = 2
    /\ IsErrorResult(pages[2])
    /\ Len(all_matches) >= 1
    /\ fetched = pages[2]

\* C3: a match for which get_match_stats returned an error result (a dict with
\* an "error" key, what line 106 tests) does not end the run: after the pass
\* of the for loop that took it no exception is raised, and fetch_games is
\* either still looping or has returned.
C3_StatsErrorSkipsOnlyThatMatch ==
    (processed # <<>> /\ IsErrorResult(Last(processed).stats))
        => (pc # "raised" /\ raised = "")

\* C4: every record of the accumulator, at every point of the run, is the
\* record of a summary the loop took that had a match id and a start
\* timestamp, whose detail fetch succeeded, and whose first round holds a
\* player entry with the target player id and a statistics object the
\* record's statistic fields are copied from; a returned list is the
\* accumulator.
C4_RecordsHaveProvenance ==
    /\ \A i \in 1..Len(all_matches) :
          \E j \in 1..Len(processed) :
             LET p == processed[j]
                 r == all_matches[i]
             IN  /\ HasIdAndDate(p.match)
                 /\ r["Match ID"] = p.match.match_id
                 /\ DetailFetched(p)
                 /\ \E a \in Positions(p.stats, player_id) :
                       /\ "player_stats" \in DOMAIN EntryAt(p.stats, a)
                       /\ \A f \in Fields :
                             r[f] = OrElse(EntryAt(p.stats, a).player_stats, f, Default(f))
    /\ IsList(fetched) => fetched.v = all_matches

\* a summary without match id or start timestamp was taken and left no
\* record, while another summary of the run did
C4_Witness ==
    /\ pc = "done"
    /\ Len(processed) = 2
    /\ ~HasIdAndDate(processed[1].match)
    /\ Len(fetched.v) = 1
    /\ fetched.v[1]["Match ID"] = processed[2].match.match_id

\* what the claim C5 as first stated takes for a match that yields a record:
\* id and timestamp present, detail fetched, some entry with the player id
ClaimedToYield(p) ==
    HasIdAndDate(p.match) /\ DetailFetched(p) /\ Positions(p.stats, player_id) # {}

RECURSIVE ClaimedIds(_, _)
ClaimedIds(log, n) ==
    IF n = 0 THEN <<>>
    ELSE IF ClaimedToYield(log[n])
    THEN Append(ClaimedIds(log, n - 1), log[n].match.match_id)
    ELSE ClaimedIds(log, n - 1)

\* C5 as first stated: the returned list holds, in order, exactly one record
\* for each summary with id and timestamp whose detail was fetched and holds a
\* player entry with the target player id.
C5_OneRecordPerMatchingEntry ==
    IsList(fetched) =>
        /\ Len(fetched.v) = Len(ClaimedIds(processed, Len(processed)))
        /\ \A i \in 1..Len(fetched.v) :
              fetched.v[i]["Match ID"] = ClaimedIds(processed, Len(processed))[i]

\* a match that yields a record: non-empty id, non-zero timestamp (one of the
\* years 1 to 9999: with any other the run raises and returns no list), detail
\* fetched, and in round 0 some team whose first entry with the player id has a
\* non-empty statistics object
Yields(p) ==
    /\ HasIdAndDate(p.match)
    /\ p.match.match_id # ""
    /\ p.match.started_at # 0
    /\ (p.match.started_at \div 86400) \in -719162..2932896
    /\ DetailFetched(p)
    /\ TeamHits(p.stats, player_id) # {}

RECURSIVE ExpectedRecords(_, _)
ExpectedRecords(log, n) ==
    IF n = 0 THEN <<>>
    ELSE IF Yields(log[n])
    THEN Append(ExpectedRecords(log, n - 1),
                RecordFrom(log[n].match, log[n].stats,
                           EntryStats(EntryAt(log[n].stats,
                                              FirstPosition(TeamHits(log[n].stats, player_id))))))
    ELSE ExpectedRecords(log, n - 1)

\* C5 (amended): the accumulator, and so the list returned by a run that ends
\* with no history-page error, holds exactly one record for each summary
\* taken that has a non-empty match id and a non-zero start timestamp, whose
\* detail fetch succeeded, and in whose first round some team's first entry
\* with the target player id has a non-empty statistics object, and no other
\* record; each record carries that match's id, date, map and score and the
\* statistics of the first such team's entry; the records are in the order
\* the summaries were returned, and a returned list covers every summary of
\* every page.
C5_OneRecordPerYieldingMatch ==
    /\ all_matches = ExpectedRecords(processed, Len(processed))
    /\ IsList(fetched) =>
          /\ fetched.v = all_matches
          /\ Len(processed) = Len(ItemsOfPages(pages, Len(pages)))
          /\ \A i \in 1..Len(processed) :
                processed[i].match = ItemsOfPages(pages, Len(pages))[i]

\* two matches with fetched details, the player id only in the second: one
\* record, built from the second match
C5_Witness ==
    /\ pc = "done"
    /\ Len(processed) = 2
    /\ DetailFetched(processed[1]) /\ DetailFetched(processed[2])
    /\ processed[1].match.match_id # processed[2].match.match_id
    /\ Positions(processed[1].stats, player_id) = {}
    /\ Positions(processed[2].stats, player_id) # {}
    /\ Len(fetched.v) = 1
    /\ fetched.v[1]["Match ID"] = processed[2].match.match_id
    /\ fetched.v[1]["Kills"] = "20"

\* the success message of an export of k records
ExpectedMessage(k) ==
    "Exported " \o ToString(k) \o " matches to Kevzip's faceit_games.xlsx"

\* C6: an export of an empty collection returns an error result and attempts
\* no write; an export of k > 0 records attempts exactly one write, of those
\* records, and returns the success result with the count k in its message,
\* or an error result when the write raised; the run is never ended by an
\* exception of the export.
C6_ExportResult ==
    \A i \in 1..Len(calls) :
        calls[i].fn = "export_to_excel" =>
            /\ pc = "done" /\ raised = ""
            /\ IF PyLen(calls[i].matches) = 0
               THEN IsErrorResult(export_result) /\ writes = <<>>
               ELSE /\ Len(writes) = 1
                    /\ writes[1].rows = calls[i].matches
                    /\ writes[1].filename = "Kevzip's faceit_games.xlsx"
                    /\ IF writes[1].raised
                       THEN IsErrorResult(export_result)
                       ELSE export_result =
                               [success |-> ExpectedMessage(PyLen(calls[i].matches))]

\* two records exported by one successful write
C6_Witness ==
    /\ pc = "done"
    /\ Len(writes) = 1
    /\ ~writes[1].raised
    /\ Len(writes[1].rows.v) = 2
    /\ export_result = [success |-> "Exported 2 matches to Kevzip's faceit_games.xlsx"]

\* the variable the script assigned the result of its last lookup to
LastLookupResult ==
    CASE Last(requests).fn = "find_player_id" -> player_result
      [] Last(requests).fn = "get_match_history" -> history
      [] Last(requests).fn = "get_match_stats" -> stats

\* C7: every lookup call sent exactly one GET; when the upstream's answer
\* was a transport failure or a status other than 200 the lookup's result is an
\* error result with a message; when it was a 200 whose body holds the
\* expected data the result is no error result: the player id for
\* find_player_id, the body itself for the other two.
C7_OnlyStatus200Succeeds ==
    /\ Len(LookupCalls) = Len(requests)
    /\ \A i \in 1..Len(requests) : LookupCalls[i].fn = requests[i].fn
    /\ requests # <<>> =>
          IF ("exc" \in DOMAIN http) \/ http.status_code # 200
          THEN /\ IsErrorResult(LastLookupResult)
               /\ "message" \in DOMAIN LastLookupResult
               /\ LastLookupResult.error # ""
          ELSE CASE Last(requests).fn = "find_player_id" ->
                      ("player_id" \in DOMAIN http.json)
                          => player_result = PyStr(http.json.player_id)
                 [] Last(requests).fn = "get_match_history" ->
                      /\ history = http.json
                      /\ ("items" \in DOMAIN http.json) => ~IsErrorResult(history)
                 [] Last(requests).fn = "get_match_stats" ->
                      /\ stats = http.json
                      /\ ("rounds" \in DOMAIN http.json) => ~IsErrorResult(stats)

\* all three lookups were made; the last one, a match-detail lookup, met a
\* status 404 and returned an error result
C7_Witness ==
    /\ Len(requests) >= 3
    /\ Last(requests).fn = "get_match_stats"
    /\ "status_code" \in DOMAIN http
    /\ http.status_code = 404
    /\ IsErrorResult(stats)

\* C8: the script calls find_player_id, fetch_games, export_to_excel in that
\* order, each at most once; after an error result of find_player_id neither
\* fetch_games nor export_to_excel is called (and no history request is
\* sent); after an error result of fetch_games export_to_excel is not called;
\* export_to_excel is called only after two non-error results, with the list
\* fetch_games returned.
C8_StepsInOrder ==
    /\ \/ MainCalls = <<>>
       \/ /\ Len(MainCalls) <= 3
          /\ MainCalls[1].fn = "find_player_id"
          /\ Len(MainCalls) >= 2 => MainCalls[2].fn = "fetch_games"
          /\ Len(MainCalls) = 3 => MainCalls[3].fn = "export_to_excel"
    /\ IsErrorResult(player_result)
          => Len(MainCalls) = 1 /\ Len(requests) = 1 /\ pc = "exited"
    /\ IsErrorResult(fetched)
          => Len(MainCalls) = 2 /\ writes = <<>> /\ export_result = PyNone
    /\ Len(MainCalls) = 3
          => /\ ~IsErrorResult(player_result)
             /\ player_result = PyStr(MainCalls[2].player_id)
             /\ IsList(fetched)
             /\ MainCalls[3].matches = fetched
             /\ fetched.v = all_matches

\* all three steps ran and a non-empty list was exported
C8_Witness ==
    /\ pc = "done"
    /\ Len(MainCalls) = 3
    /\ Len(fetched.v) >= 1
    /\ Len(writes) = 1

\* C9: once fetch_games has taken a match summary, no exception has ended the
\* run: a missing or malformed field of a summary or of a fetched detail only
\* skips that match.
C9_MalformedFieldsNeverRaise ==
    processed # <<>> => (pc # "raised" /\ raised = "")

\* C10: after the scan of a fetched detail, player_stats is the statistics
\* object of the first entry, in team order then player order, of round 0
\* that has the target player id (None when there is none), and a record
\* appended for the match has its statistics from that entry.
C10_FirstEntryWins ==
    (processed # <<>> /\ DetailFetched(Last(processed)) /\ pc # "raised")
        => LET st == Last(processed).stats
               S == Positions(st, player_id)
           IN  IF S = {}
               THEN player_stats = PyNone
               ELSE /\ player_stats = EntryStats(EntryAt(st, FirstPosition(S)))
                    /\ EntryStats(EntryAt(st, FirstPosition(S))) # <<>>
                          => \A f \in Fields :
                                Last(all_matches)[f] =
                                    OrElse(EntryStats(EntryAt(st, FirstPosition(S))),
                                           f, Default(f))

====
